---- MODULE Spec2Model ----
(***************************************************************************)
(* The weekly OTT digest: main.py and send_ott_updates.py.                 *)
(*                                                                         *)
(* Both scripts are one sequential run: compute the week window, fetch the *)
(* catalog pages, keep the in-window records, look each one up in OMDb,    *)
(* sort by rating, format the text and POST it to Telegram.  Every HTTP    *)
(* call is one step of the model, its answer chosen nondeterministically.  *)
(*                                                                         *)
(* Dates are proleptic ordinals (datetime.date.toordinal(): day 1 is       *)
(* Monday 0001-01-01).  A text is a record that says what kind of text it  *)
(* is; parsing and formatting change the kind.  Platform names and the     *)
(* 350-character plot truncation are not modelled: plots here are short.   *)
(***************************************************************************)
EXTENDS Integers, Sequences, FiniteSets, TLC

\* ---------------------------------------------------------------- bounds
\* records the catalog serves in one run, over all pages
MaxCatalog == 2
\* number of consecutive "today" values of SpecWeek
MaxSpan == 60

\* ------------------------------------------------------ program constants
\* main.py: for p in (1,2); send_ott_updates.py: for page in range(1, 3)
NumPages == 2
\* datetime: Friday is weekday 4 (Monday is 0)
Friday == 4
\* timedelta(days=6)
WindowBack == 6

\* ---------------------------------------------------------------- texts
\* a date field of a catalog record
Absent == [kind |-> "absent", day |-> 0]                \* None, "" or no key
Ymd(d) == [kind |-> "ymd", day |-> d]                   \* "2024-01-03"
YmdT(d) == [kind |-> "ymdT", day |-> d]                 \* "2024-01-03T00:00:00Z"
BadDate == [kind |-> "bad", day |-> 0]                  \* "soon"
\* a date as the message shows it
Dby(d) == [kind |-> "dby", day |-> d]                   \* "03 Jan 2024"
DateNA == [kind |-> "N/A", day |-> 0]                   \* "N/A"

\* an imdbRating text
Num(t) == [kind |-> "num", tenths |-> t]                \* "8.1" is Num(81)
RatingNA == [kind |-> "N/A", tenths |-> 0]              \* "N/A"

\* a failed parse (the exception strptime or float raises)
Raised == 0 - 1

\* Python truthiness of a date field: None and "" are falsy
Truthy(rd) == rd.kind # "absent"

\* a or b
Or(a, b) == IF Truthy(a) THEN a ELSE b

\* rd[:10]: the first ten characters
First10(rd) == IF rd.kind = "ymdT" THEN Ymd(rd.day) ELSE rd

\* dt.strptime(s, "%Y-%m-%d").date(): the ordinal, or Raised (ValueError)
strptime(s) == IF s.kind = "ymd" THEN s.day ELSE Raised

\* d.strftime("%d %b %Y")
strftime(d) == Dby(d)

\* dict.get(key, default)
Get(d, k, default) == IF k \in DOMAIN d THEN d[k] ELSE default

\* date.weekday()
weekday(d) == (d + 6) % 7

\* ---------------------------------------------------------------- inputs
Titles == {"Alpha", "Beta"}

\* str < str on the titles of the model
TitleOrd(t) == CASE t = "Alpha" -> 1 [] t = "Beta" -> 2 [] OTHER -> 3

Rec(t, y, rel, air) == [title |-> t, year |-> y, releaseDate |-> rel, firstAirDate |-> air]

\* the catalog's records: two with one (title, year), dates on both sides of
\* the window, a date with a time suffix, an unparseable date before a good one,
\* no date at all, no title
Records ==
    { Rec("Alpha", 2024, Ymd(24), Absent),
      Rec("Alpha", 2024, Absent, Ymd(26)),
      Rec("Beta", 2024, Ymd(26), Absent),
      Rec("Beta", 2023, YmdT(24), Absent),
      Rec("Beta", 2024, Ymd(19), Absent),
      Rec("Alpha", 2024, Ymd(30), Absent),
      Rec("", 2024, Ymd(31), Absent),
      Rec("Beta", 2024, BadDate, Ymd(24)),
      Rec("Alpha", 2023, Absent, Absent) }

\* the sequences over S of length at most n
RECURSIVE SeqsUpTo(_, _)
SeqsUpTo(S, n) ==
    IF n = 0 THEN {<<>>}
    ELSE LET shorter == SeqsUpTo(S, n - 1)
         IN  shorter \cup {Append(s, x) : s \in {t \in shorter : Len(t) = n - 1}, x \in S}

\* the days a run may start on: a Monday and the Friday after it
Todays == {29, 33}

\* what OMDb may answer: a body that has the title, or one that has not
OmdbBodies ==
    { [Response |-> "True", imdbRating |-> Num(81), Plot |-> "A story"],
      [Response |-> "True", imdbRating |-> Num(65), Plot |-> "A story"],
      [Response |-> "False", Error |-> "Movie not found!"] }

Secrets == {"STREAMING_API_KEY", "OMDB_API_KEY", "TELEGRAM_BOT_TOKEN", "TELEGRAM_CHAT_ID"}

\* the environments: every secret set, or one of them unset
Envs == {Secrets} \cup {Secrets \ {s} : s \in Secrets}

NoWindow == [start |-> 0, end |-> 0]
NoMessage == [head |-> "", start |-> 0, end |-> 0, entries |-> <<>>]

VARIABLES
    script,      \* "main" (main.py) or "send" (send_ott_updates.py)
    env,         \* the secrets that are set in the process environment
    today,       \* datetime.date.today()
    pc,          \* where the run is
    win,         \* (start, end) of the week
    page,        \* the page the fetch loop is at
    pending,     \* main.py: in-window items of the page not yet looked up
    results,     \* the list the fetch loop builds
    unique,      \* send_ott_updates.py: unique_releases
    enriched,    \* send_ott_updates.py: enriched_list
    message,     \* the text handed to the notifier
    fetched,     \* the records the pages that succeeded brought, in order
    requests,    \* catalog pages requested, in order
    pageFailed,  \* pages whose request failed
    lookups,     \* OMDb lookups issued, in order: the item each was for
    entered,     \* items that entered enrichment
    unanswered,  \* items enriched without data (no key, failed or "not found" lookup)
    notified,    \* calls of the notifier
    posts,       \* POSTs to Telegram
    postFailed,  \* a POST failed
    exitStatus,  \* the process's exit status, -1 while it runs
    printed      \* lines the run printed

vars == <<script, env, today, pc, win, page, pending, results, unique, enriched,
          message, fetched, requests, pageFailed, lookups, entered, unanswered, notified,
          posts, postFailed, exitStatus, printed>>

\* ------------------------------------------------------------ week range
\* main.py week_range(), send_ott_updates.py get_week_range()
week_range_offset3(t) ==
    LET offset == (weekday(t) - 3) % 7
        last_friday == t - offset
    IN  [start |-> last_friday - WindowBack, end |-> last_friday]

week_range(t) ==
    LET offset == (weekday(t) - Friday) % 7
        last_friday == t - offset
    IN  [start |-> last_friday - WindowBack, end |-> last_friday]

get_week_range(t) ==
    LET last_friday_offset == (weekday(t) - Friday) % 7
        last_friday == t - last_friday_offset
        start_date == last_friday - WindowBack
    IN  [start |-> start_date, end |-> last_friday]

\* ------------------------------------------------------------ HTTP layer
EmptyDict == [k \in {} |-> 0]

\* what a GET of a catalog page may bring, `left` records being left to serve;
\* the catalog is authenticated by the x-rapidapi-key header and refuses a
\* request without the key
AllPages == SeqsUpTo(Records, MaxCatalog)

CatalogResponses(hasKey, left) ==
    { [kind |-> "transport_error", json |-> EmptyDict],
      [kind |-> "http_error", json |-> EmptyDict] }
    \cup { [kind |-> "ok", json |-> [result |-> s]] :
              s \in {t \in AllPages : hasKey /\ Len(t) <= left} }

\* what a GET of OMDb may bring; OMDb answers an error in JSON too
OmdbResponses ==
    { [kind |-> "transport_error", json |-> EmptyDict],
      [kind |-> "http_error", json |-> [Response |-> "False", Error |-> "Invalid API key!"]] }
    \cup { [kind |-> "ok", json |-> b] : b \in OmdbBodies }

\* the lookup brought the title's data
Answered(resp) == resp.kind = "ok" /\ resp.json.Response = "True"

\* what a POST to Telegram may bring
PostOutcomes == {"ok", "http_error", "transport_error"}

\* safe_get of both scripts: the JSON body, {} on a transport error or a non-2xx
safe_get(resp) == IF resp.kind = "ok" THEN resp.json ELSE EmptyDict

\* -------------------------------------------------------- sorting (both)
\* tuple comparison of the sort keys <<rating, title>>
KeyLess(a, b) == a[1] < b[1] \/ (a[1] = b[1] /\ a[2] < b[2])

\* list.sort(key=..., reverse=True) and sorted(..., key=..., reverse=True):
\* descending by key, equal keys keep their order
SortedReverse(items, keys) ==
    LET n == Len(items)
        pos(i) == 1 + Cardinality({j \in 1..n : KeyLess(keys[i], keys[j])})
                    + Cardinality({j \in 1..(i - 1) : keys[j] = keys[i]})
    IN  [p \in 1..n |-> items[CHOOSE i \in 1..n : pos(i) = p]]

\* float(x) of a rating text, in tenths; Raised for "N/A"
float(x) == IF x.kind = "num" THEN x.tenths ELSE Raised

\* ================================================================ main.py
\* build_weekly_list: the release date field of an item; the records of the
\* model carry no release_date and no originalRelease, the last two of the chain
main_rd(item) == Or(item.releaseDate, item.firstAirDate)

\* build_weekly_list: date_ok of an item
main_date_ok_noupper(item, start, end) ==
    LET rd == main_rd(item)
        rd_date == strptime(First10(rd))
    IN  Truthy(rd) /\ rd_date # Raised /\ start <= rd_date

main_date_ok(item, start, end) ==
    LET rd == main_rd(item)
        rd_date == strptime(First10(rd))
    IN  Truthy(rd) /\ rd_date # Raised /\ start <= rd_date /\ rd_date <= end

\* build_weekly_list: title of an item; the records carry no name and no
\* originalTitle
main_title(item) == IF item.title # "" THEN item.title ELSE "Unknown"

\* omdb_info_by_title
main_omdb_drop_plot(hasKey, resp) ==
    IF ~hasKey \/ resp.kind = "transport_error"
    THEN [imdbRating |-> RatingNA, Plot |-> ""]
    ELSE [imdbRating |-> Get(resp.json, "imdbRating", RatingNA),
          Plot |-> Get(resp.json, "Plot", "")]

omdb_info_by_title(hasKey, resp) ==
    IF ~hasKey \/ resp.kind = "transport_error"
    THEN [imdbRating |-> RatingNA, Plot |-> "No plot available"]
    ELSE [imdbRating |-> Get(resp.json, "imdbRating", RatingNA),
          Plot |-> Get(resp.json, "Plot", "No plot available")]

\* build_weekly_list: the dict appended to results
main_result(item, omdb) ==
    [title |-> main_title(item),
     release_date |-> strftime(strptime(First10(main_rd(item)))),
     imdb |-> Get(omdb, "imdbRating", RatingNA),
     plot |-> Get(omdb, "Plot", "No plot available")]

\* build_weekly_list.rating_key
main_rating_key(x) == IF float(x.imdb) # Raised THEN float(x.imdb) ELSE 0

\* results.sort(key=lambda x: (rating_key(x), x["title"]), reverse=True)
main_sort(res) ==
    SortedReverse(res, [i \in 1..Len(res) |-> <<main_rating_key(res[i]), TitleOrd(res[i].title)>>])

\* format_message
format_message(items, start, end) ==
    IF items = <<>>
    THEN [head |-> "No OTT releases found between {start} and {end}.",
          start |-> start, end |-> end, entries |-> <<>>]
    ELSE [head |-> "*OTT Releases in India*  ({start} - {end})",
          start |-> start, end |-> end,
          entries |-> [i \in 1..Len(items) |->
              [title |-> items[i].title, rating |-> items[i].imdb,
               date |-> items[i].release_date, plot |-> items[i].plot]]]

\* ==================================================== send_ott_updates.py
\* fetch_new_releases: does the loop body append the item?
send_in_window(item, start_date, end_date) ==
    LET release_date_str == Or(item.releaseDate, item.firstAirDate)
        release_date == strptime(release_date_str)
    IN  Truthy(release_date_str) /\ release_date # Raised
        /\ start_date <= release_date /\ release_date <= end_date

\* item.get("title") or item.get("name", "Unknown"); the records have no name
send_title(item) == IF item.title # "" THEN item.title ELSE "Unknown"

\* fetch_new_releases: identifier = (title, year)
identifier(item) == <<send_title(item), item.year>>

\* fetch_new_releases: the loop that removes duplicates
RECURSIVE unique_releases_from(_, _, _)
unique_releases_from(res, unique_releases, seen_titles) ==
    IF res = <<>> THEN unique_releases
    ELSE LET item == Head(res)
         IN  IF identifier(item) \notin seen_titles
             THEN unique_releases_from(Tail(res), Append(unique_releases, item),
                                       seen_titles \cup {identifier(item)})
             ELSE unique_releases_from(Tail(res), unique_releases, seen_titles)

unique_releases(res) == unique_releases_from(res, <<>>, {})

\* enrich_with_omdb: the loop body, omdb_data being what safe_get returned
enrich_item(item, omdb_data) ==
    [k \in DOMAIN item \cup {"imdbRating", "plot"} |->
        CASE k = "imdbRating" -> Get(omdb_data, "imdbRating", RatingNA)
          [] k = "plot" -> Get(omdb_data, "Plot", "No plot available.")
          [] OTHER -> item[k]]

\* rank_releases.rating_key
send_rating_key(item) ==
    LET r == Get(item, "imdbRating", Num(0))
    IN  IF float(r) # Raised THEN float(r) ELSE 0

\* rank_releases
rank_releases_ascending(releases) ==
    SortedReverse(releases, [i \in 1..Len(releases) |-> <<0 - send_rating_key(releases[i]), 0>>])

rank_releases(releases) ==
    SortedReverse(releases, [i \in 1..Len(releases) |-> <<send_rating_key(releases[i]), 0>>])

\* format_telegram_message: release_date_formatted of an item
send_date_text(item) ==
    LET release_date_str == Or(item.releaseDate, item.firstAirDate)
    IN  IF Truthy(release_date_str) /\ strptime(release_date_str) # Raised
        THEN strftime(strptime(release_date_str)) ELSE DateNA

\* format_telegram_message
format_telegram_message(items, start_date, end_date) ==
    IF items = <<>>
    THEN [head |-> "*No new OTT releases found for {start} - {end}*",
          start |-> start_date, end |-> end_date, entries |-> <<>>]
    ELSE [head |-> "*OTT Releases in India ({start} - {end})*",
          start |-> start_date, end |-> end_date,
          entries |-> [i \in 1..Len(items) |->
              [title |-> send_title(items[i]),
               rating |-> Get(items[i], "imdbRating", RatingNA),
               date |-> send_date_text(items[i]),
               plot |-> Get(items[i], "plot", "No plot available.")]]]

\* main(): the text it sends when no release was found
no_releases_text(start_date, end_date) ==
    [head |-> "No new OTT releases found for {start} - {end}",
     start |-> start_date, end |-> end_date, entries |-> <<>>]

\* ================================================================== runs
\* the items of a list that satisfy ok
RECURSIVE SelectItems(_, _, _, _)
SelectItems(items, which, start, end) ==
    IF items = <<>> THEN <<>>
    ELSE LET keep == IF which = "main" THEN main_date_ok(Head(items), start, end)
                     ELSE send_in_window(Head(items), start, end)
         IN  (IF keep THEN <<Head(items)>> ELSE <<>>) \o SelectItems(Tail(items), which, start, end)

InitWith(days) ==
    /\ script \in {"main", "send"}
    /\ env \in Envs
    /\ today \in days
    /\ pc = "start"
    /\ win = NoWindow
    /\ page = 0
    /\ pending = <<>>
    /\ results = <<>>
    /\ unique = <<>>
    /\ enriched = <<>>
    /\ message = NoMessage
    /\ fetched = <<>>
    /\ requests = <<>>
    /\ pageFailed = {}
    /\ lookups = <<>>
    /\ entered = 0
    /\ unanswered = 0
    /\ notified = 0
    /\ posts = 0
    /\ postFailed = FALSE
    /\ exitStatus = 0 - 1
    /\ printed = {}

Init == InitWith(Todays)

\* ---------------------------------------------------------------- main.py
\* main(): items, start, end = build_weekly_list() up to the first fetch
main_start ==
    /\ script = "main" /\ pc = "start"
    /\ win' = week_range(today)
    /\ page' = 1
    /\ pc' = "fetch"
    /\ UNCHANGED <<script, env, today, pending, results, unique, enriched, message,
                   fetched, requests, pageFailed, lookups, entered, unanswered,
                   notified, posts, postFailed, exitStatus, printed>>

\* build_weekly_list: the page is done; the next one, or the sort and the message
main_page_done(res) ==
    IF page < NumPages
    THEN /\ page' = page + 1
         /\ pc' = "fetch"
         /\ results' = res
         /\ message' = message
    ELSE /\ page' = page
         /\ pc' = "send"
         /\ results' = main_sort(res)
         /\ message' = format_message(main_sort(res), win.start, win.end)

\* build_weekly_list: fetch_streaming_releases(page=p) and the date filter
main_fetch ==
    /\ script = "main" /\ pc = "fetch"
    /\ \E resp \in CatalogResponses("STREAMING_API_KEY" \in env, MaxCatalog - Len(fetched)) :
          LET data == safe_get(resp)
              items == Get(data, "result", <<>>)
              kept == SelectItems(items, "main", win.start, win.end)
          IN  /\ requests' = Append(requests, page)
              /\ pageFailed' = IF resp.kind = "ok" THEN pageFailed ELSE pageFailed \cup {page}
              /\ fetched' = fetched \o items
              /\ pending' = kept
              /\ IF kept = <<>>
                 THEN main_page_done(results)
                 ELSE /\ pc' = "lookup"
                      /\ UNCHANGED <<page, results, message>>
    /\ UNCHANGED <<script, env, today, win, unique, enriched, lookups, entered,
                   unanswered, notified, posts, postFailed, exitStatus, printed>>

\* build_weekly_list: omdb_info_by_title(title) for the next in-window item, and
\* results.append
main_lookup ==
    /\ script = "main" /\ pc = "lookup"
    /\ LET item == Head(pending)
           hasKey == "OMDB_API_KEY" \in env
       IN  \E resp \in IF hasKey THEN OmdbResponses ELSE {[kind |-> "none", json |-> EmptyDict]} :
              LET omdb == omdb_info_by_title(hasKey, resp)
                  res == Append(results, main_result(item, omdb))
              IN  /\ lookups' = IF hasKey THEN Append(lookups, <<main_title(item), item.year>>)
                                ELSE lookups
                  /\ entered' = entered + 1
                  /\ unanswered' = IF hasKey /\ Answered(resp) THEN unanswered ELSE unanswered + 1
                  /\ pending' = Tail(pending)
                  /\ IF Tail(pending) = <<>>
                     THEN main_page_done(res)
                     ELSE /\ results' = res
                          /\ UNCHANGED <<pc, page, message>>
    /\ UNCHANGED <<script, env, today, win, unique, enriched, fetched, requests,
                   pageFailed, notified, posts, postFailed, exitStatus, printed>>

\* main(): send_telegram(message), and the script ends
main_send ==
    /\ script = "main" /\ pc = "send"
    /\ notified' = notified + 1
    /\ IF "TELEGRAM_BOT_TOKEN" \notin env \/ "TELEGRAM_CHAT_ID" \notin env
       THEN /\ printed' = printed \cup {"Missing Telegram credentials."}
            /\ UNCHANGED <<posts, postFailed>>
       ELSE \E outcome \in PostOutcomes :
              /\ posts' = posts + 1
              /\ postFailed' = (outcome # "ok")
              /\ printed' = printed \cup
                    {IF outcome = "transport_error" THEN "Failed to send telegram:"
                     ELSE "Telegram send status:"}
    /\ pc' = "done"
    /\ exitStatus' = 0
    /\ UNCHANGED <<script, env, today, win, page, pending, results, unique, enriched,
                   message, fetched, requests, pageFailed, lookups, entered, unanswered>>

\* ---------------------------------------------------- send_ott_updates.py
\* main(): the check of the environment and get_week_range()
send_start ==
    /\ script = "send" /\ pc = "start"
    /\ IF env # Secrets
       THEN /\ printed' = printed \cup {"Missing one or more required environment variables. Aborting."}
            /\ pc' = "done"
            /\ exitStatus' = 0
            /\ UNCHANGED <<win, page>>
       ELSE /\ win' = get_week_range(today)
            /\ page' = 1
            /\ pc' = "fetch"
            /\ UNCHANGED <<exitStatus, printed>>
    /\ UNCHANGED <<script, env, today, pending, results, unique, enriched, message,
                   fetched, requests, pageFailed, lookups, entered, unanswered,
                   notified, posts, postFailed>>

\* main(): rank_releases and format_telegram_message of the enriched list
send_ranked_message(enriched_releases) ==
    format_telegram_message(rank_releases(enriched_releases), win.start, win.end)

\* fetch_new_releases: the loop is over; the duplicates go, and main() goes on
send_loop_done(res) ==
    LET new_releases == unique_releases(res)
    IN  /\ results' = res
        /\ unique' = new_releases
        /\ page' = page
        /\ IF new_releases = <<>>
           THEN /\ message' = no_releases_text(win.start, win.end)
                /\ pc' = "send"
                /\ enriched' = enriched
           ELSE IF "OMDB_API_KEY" \notin env
           THEN /\ enriched' = new_releases
                /\ message' = send_ranked_message(new_releases)
                /\ pc' = "send"
           ELSE /\ pc' = "enrich"
                /\ UNCHANGED <<enriched, message>>

\* fetch_new_releases: one turn of the page loop
send_fetch ==
    /\ script = "send" /\ pc = "fetch"
    /\ \E resp \in CatalogResponses("STREAMING_API_KEY" \in env, MaxCatalog - Len(fetched)) :
          LET data == safe_get(resp)
              result == Get(data, "result", <<>>)
              res == results \o SelectItems(result, "send", win.start, win.end)
          IN  /\ requests' = Append(requests, page)
              /\ pageFailed' = IF resp.kind = "ok" THEN pageFailed ELSE pageFailed \cup {page}
              /\ fetched' = fetched \o result
              /\ IF result = <<>>
                 THEN send_loop_done(results)
                 ELSE IF page < NumPages
                 THEN /\ page' = page + 1
                      /\ results' = res
                      /\ UNCHANGED <<pc, unique, enriched, message>>
                 ELSE send_loop_done(res)
    /\ UNCHANGED <<script, env, today, win, pending, lookups, entered, unanswered,
                   notified, posts, postFailed, exitStatus, printed>>

\* enrich_with_omdb: one turn of the loop; after the last, rank and format
send_enrich ==
    /\ script = "send" /\ pc = "enrich"
    /\ \E resp \in OmdbResponses :
          LET item == unique[Len(enriched) + 1]
              omdb_data == safe_get(resp)
              enriched_list == Append(enriched, enrich_item(item, omdb_data))
          IN  /\ lookups' = Append(lookups, identifier(item))
              /\ entered' = entered + 1
              /\ unanswered' = IF Answered(resp) THEN unanswered ELSE unanswered + 1
              /\ enriched' = enriched_list
              /\ IF Len(enriched_list) = Len(unique)
                 THEN /\ message' = send_ranked_message(enriched_list)
                      /\ pc' = "send"
                 ELSE UNCHANGED <<message, pc>>
    /\ UNCHANGED <<script, env, today, win, page, pending, results, unique, fetched,
                   requests, pageFailed, notified, posts, postFailed, exitStatus, printed>>

\* send_telegram_message(text), and main() returns
send_post ==
    /\ script = "send" /\ pc = "send"
    /\ notified' = notified + 1
    /\ IF "TELEGRAM_BOT_TOKEN" \notin env \/ "TELEGRAM_CHAT_ID" \notin env
       THEN /\ printed' = printed \cup {"Skipping message send."}
                             \cup (IF unique = <<>> THEN {} ELSE {"Bot finished its run successfully."})
            /\ UNCHANGED <<posts, postFailed>>
       ELSE \E outcome \in PostOutcomes :
              /\ posts' = posts + 1
              /\ postFailed' = (outcome # "ok")
              /\ printed' = printed
                    \cup {IF outcome = "ok" THEN "Message sent successfully to Telegram."
                          ELSE "Failed to send message to Telegram:"}
                    \cup (IF unique = <<>> THEN {} ELSE {"Bot finished its run successfully."})
    /\ pc' = "done"
    /\ exitStatus' = 0
    /\ UNCHANGED <<script, env, today, win, page, pending, results, unique, enriched,
                   message, fetched, requests, pageFailed, lookups, entered, unanswered>>

\* ------------------------------------------------------- specifications
Next ==
    \/ main_start
    \/ main_fetch
    \/ main_lookup
    \/ main_send
    \/ send_start
    \/ send_fetch
    \/ send_enrich
    \/ send_post

Spec == Init /\ [][Next]_vars

\* the week range alone, over MaxSpan consecutive days
InitWeek == InitWith(8..(8 + MaxSpan))

NextWeek ==
    \/ main_start
    \/ send_start

SpecWeek == InitWeek /\ [][NextWeek]_vars

\* ================================================================ claims
\* the run is over / it stopped at the check of the environment
Done == pc = "done"
Aborted == script = "send" /\ env # Secrets
Formatted == pc \in {"send", "done"} /\ ~Aborted

Entries == message.entries

\* the release date a catalog record carries, read as a person reads it
DateOf(r) == Or(r.releaseDate, r.firstAirDate)
HasDate(r) == DateOf(r).kind \in {"ymd", "ymdT"}
TitleOf(r) == IF r.title = "" THEN "Unknown" ELSE r.title
KeyOf(r) == <<TitleOf(r), r.year>>

\* the fetched records the script's date filter lets through, in fetch order
InWindow == SelectItems(fetched, script, win.start, win.end)
InWindowKeys == {KeyOf(InWindow[i]) : i \in 1..Len(InWindow)}

\* the indices of the records that are the first with their key
FirstSeen(s) == {i \in 1..Len(s) : \A j \in 1..(i - 1) : KeyOf(s[j]) # KeyOf(s[i])}

\* the subsequence of s at the indices in I
RECURSIVE SubSeqAt(_, _, _)
SubSeqAt(s, I, i) ==
    IF i > Len(s) THEN <<>>
    ELSE (IF i \in I THEN <<s[i]>> ELSE <<>>) \o SubSeqAt(s, I, i + 1)

\* the rating an entry of the message is ranked by: tenths, 0 when not a number
Ranked(e) == IF e.rating.kind = "num" THEN e.rating.tenths ELSE 0

\* C1: every item of the message shows a release date inside the week window or
\* the "N/A" marker, and it comes from a fetched record that carries that very
\* date; no record dated outside the window or without a date is in the message.
C1_DatesInWindow ==
    \A i \in 1..Len(Entries) :
        LET d == Entries[i].date
        IN  \/ d = DateNA
            \/ /\ d.kind = "dby"
               /\ win.start <= d.day /\ d.day <= win.end
               /\ \E j \in 1..Len(fetched) :
                     /\ HasDate(fetched[j])
                     /\ DateOf(fetched[j]).day = d.day
                     /\ TitleOf(fetched[j]) = Entries[i].title

\* C1 witness: a finished run whose message has an item, the catalog having also
\* served a record dated outside the window and a record without a usable date
C1_Witness ==
    /\ Done /\ Len(Entries) >= 1
    /\ \E j \in 1..Len(fetched) :
          \/ HasDate(fetched[j]) /\ DateOf(fetched[j]).day > win.end
          \/ HasDate(fetched[j]) /\ DateOf(fetched[j]).day < win.start
          \/ ~HasDate(fetched[j])

\* C2: the items handed to ranking and formatting hold exactly one item per
\* (title, year) key of the fetched in-window records, the first one seen, in
\* first-seen order.
C2_Deduplicated ==
    Formatted =>
        /\ Len(Entries) = Cardinality(InWindowKeys)
        /\ script = "send" => unique = SubSeqAt(InWindow, FirstSeen(InWindow), 1)

\* C3: in the message an item with the higher parsed rating comes first, and an
\* item whose rating is no number counts as 0: the ranks never increase.
C3_RankedByRating ==
    \A p \in 1..Len(Entries) : \A q \in 1..Len(Entries) :
        Ranked(Entries[p]) > Ranked(Entries[q]) => p < q

\* C3 witness: a finished run of two items, the one looked up first showing the
\* lower rating (a number against a number or against "N/A")
C3_Witness ==
    /\ Done /\ script = "send" /\ Len(enriched) = 2 /\ Len(Entries) = 2
    /\ send_rating_key(enriched[1]) < send_rating_key(enriched[2])

\* C4: when no item survives the fetch and the date filter, the notifier is
\* called exactly once, with the text the formatter gives for an empty list.
C4_NoReleasesMessage ==
    (Done /\ ~Aborted /\ InWindow = <<>>) =>
        /\ notified = 1
        /\ message = IF script = "main" THEN format_message(<<>>, win.start, win.end)
                     ELSE format_telegram_message(<<>>, win.start, win.end)

\* the entries that show no rating and the given no-plot text
Sentinels(plot) == {i \in 1..Len(Entries) : Entries[i].rating = RatingNA /\ Entries[i].plot = plot}

\* C5 as stated: every item that entered enrichment is in the message, and each
\* one whose lookup brought no data shows rating "N/A" and plot
\* "No plot available".
C5_Original ==
    Formatted =>
        /\ Len(Entries) = entered
        /\ Cardinality(Sentinels("No plot available")) = unanswered

\* C5 amended: every item that entered enrichment is in the message, and each
\* one whose lookup brought no data shows rating "N/A" and the script's no-plot
\* text: "No plot available" in main.py, "No plot available." (with the full
\* stop) in send_ott_updates.py.
C5_EnrichmentKeepsItems ==
    Formatted =>
        /\ Len(Entries) = entered
        /\ entered = Len(IF script = "main" THEN InWindow ELSE unique)
        /\ Cardinality(Sentinels(IF script = "main" THEN "No plot available"
                                 ELSE "No plot available.")) = unanswered

\* C5 witness: a finished run of two items, one lookup answered and one not
C5_Witness ==
    /\ Done /\ entered = 2 /\ unanswered = 1 /\ Len(lookups) = 2

\* C6: a run that starts with a required secret unset makes no external call
\* and ends with a failure status.
C6_MissingConfigFatal ==
    env # Secrets =>
        /\ requests = <<>> /\ lookups = <<>> /\ posts = 0
        /\ Done => exitStatus # 0

\* C7: a run whose POST to the chat failed ends with a failure status.
C7_SendFailureSurfaced ==
    (Done /\ postFailed) => exitStatus # 0

\* a Friday, by the ordinal: day 5 (0001-01-05) is one
IsFriday(d) == d % 7 = 5

C9_FailedPageIsLocal ==
    (Done /\ ~Aborted /\ pageFailed # {}) =>
        /\ \A p \in 1..NumPages : \E i \in 1..Len(requests) : requests[i] = p
        /\ \A j \in 1..Len(InWindow) :
              \E i \in 1..Len(Entries) : Entries[i].title = TitleOf(InWindow[j])

\* C10: no call is repeated: a page is requested at most once, the chat POST is
\* made at most once, and once the list is complete exactly one lookup was
\* issued per unique (title, year) item that survived (here with every secret
\* set).
C10_NoRetries ==
    /\ \A i \in 1..Len(requests) : \A j \in 1..Len(requests) : requests[i] = requests[j] => i = j
    /\ posts <= 1
    /\ (Formatted /\ env = Secrets) =>
          /\ Len(lookups) = Cardinality(InWindowKeys)
          /\ \A i \in 1..Len(lookups) : \A j \in 1..Len(lookups) : lookups[i] = lookups[j] => i = j

====
